---- MODULE Spec2Model ----
(***************************************************************************)
(* The asset-app backend: five variants of one Express server in front of  *)
(* a Postgres store with the tables users and assets.                      *)
(*   variant 1 = src/server.js lines    1..320                             *)
(*   variant 2 = src/server.js lines  323..500                             *)
(*   variant 3 = src/server.js lines  501..799                             *)
(*   variant 4 = src/server.js lines  802..1135                            *)
(*   variant 5 = src/unnamed/part_000                                      *)
(* A handler that awaits one statement is one action (its validation, the  *)
(* statement and the response touch no state shared with other requests    *)
(* except through the statement).  A handler that awaits two statements    *)
(* (variant 5: create user, delete user) is two actions, so that other     *)
(* requests interleave between its statements.                             *)
(***************************************************************************)
EXTENDS Integers, FiniteSets, Sequences, TLC

\* ---------------------------------------------------------------- bounds
NReq == 2
MaxUserId == 3
MaxAssetId == 2

Req == 1..NReq
Variants == 1..5

\* ---------------------------------------------------------------- values
\* A field the JSON body does not carry (undefined / null) and SQL NULL.
NULL == "NULL"

\* JavaScript `!x` for a string-or-undefined field.
Falsy(x) == x \in {NULL, ""}

\* SQL `a = b` and `a != b`: never true when either side is NULL.
SqlEq(a, b) == a # NULL /\ b # NULL /\ a = b
SqlNeq(a, b) == a # NULL /\ b # NULL /\ a # b

\* The JSON number 123 in a request body, as distinct from the string "123".
Num123 == "#123"

\* A query parameter as pool.query sends it: every value goes to the store as
\* text, a number as its decimal digits.
PgText(x) == IF x = Num123 THEN "123" ELSE x

UsernameIn == {"admin", "bob", NULL}
PasswordIn == {"pw1", "pw2", ""}
RoleIn == {"user", NULL}
UserIdIn == 1..MaxUserId

\* res.status(204).send(): a response without a body.
NoBody == [k \in {} |-> NULL]
\* res.status(s).json({ error: msg })
Err(msg) == [error |-> msg]
\* res.json({ message: msg })
Msg(msg) == [message |-> msg]

\* RETURNING id, username, role / { id, username, role }
Public(row) == [id |-> row.id, username |-> row.username, role |-> row.role]

\* ------------------------------------------------------------- the store
\* users(id, username, password, role); the row created by setup.
AdminRow == [id |-> 1, username |-> "admin", password |-> "pw1", role |-> "admin"]

\* The uniqueness constraint on users.username.
UsernameTaken(U, username) == \E u \in U : SqlEq(u.username, username)

\* What a handler hands back to its action: the response, the table it
\* writes and that table's id sequence after its statements, and the number
\* of statements it issued.
Result(pc, status, body, U, seq, n) ==
    [pc |-> pc, status |-> status, body |-> body, table |-> U, seq |-> seq, stmts |-> n]

\* The same for a handler that only reads the store.
Reply(status, body, n) == [pc |-> "done", status |-> status, body |-> body, stmts |-> n]

\* INSERT INTO users (username, password, role) VALUES ($1, $2, $3)
\*   RETURNING id, username, role
\* The id is drawn from the sequence before the constraint is checked.
InsertUser(U, seq, username, password, role) ==
    LET row == [id |-> seq, username |-> PgText(username), password |-> PgText(password),
                role |-> PgText(role)]
    IN  IF UsernameTaken(U, PgText(username))
        THEN [code |-> "23505", rows |-> {}, users |-> U, seq |-> seq + 1]
        ELSE [code |-> "", rows |-> {Public(row)}, users |-> U \cup {row}, seq |-> seq + 1]

\* UPDATE users SET password = $1, role = $2 RETURNING id, username, role
UpdatePasswordRole_NoWhere(U, id, password, role) ==
    LET new == {[u EXCEPT !.password = PgText(password), !.role = PgText(role)] : u \in U}
    IN  [rows |-> {Public(u) : u \in new}, users |-> new]

\* UPDATE users SET password = $1, role = $2 WHERE id = $3 RETURNING id, username, role
UpdatePasswordRole(U, id, password, role) ==
    LET hit == {u \in U : u.id = id}
        new == {[u EXCEPT !.password = PgText(password), !.role = PgText(role)] : u \in hit}
    IN  [rows |-> {Public(u) : u \in new}, users |-> (U \ hit) \cup new]

\* UPDATE users SET role = $1 WHERE id = $2 RETURNING id, username, role
UpdateRole(U, id, role) ==
    LET hit == {u \in U : u.id = id}
        new == {[u EXCEPT !.role = PgText(role)] : u \in hit}
    IN  [rows |-> {Public(u) : u \in new}, users |-> (U \ hit) \cup new]

\* DELETE FROM users WHERE id = $1 [RETURNING ...]
DeleteUserRow(U, id) ==
    LET hit == {u \in U : u.id = id}
    IN  [rows |-> hit, users |-> U \ hit]

\* DELETE FROM users WHERE id = $1 AND username != $2      ($2 = 'admin')
DeleteUserRowExcept(U, id, name) ==
    LET hit == {u \in U : u.id = id /\ SqlNeq(u.username, name)}
    IN  [rows |-> hit, users |-> U \ hit]

\* SELECT * FROM users WHERE username = $1
SelectByUsername(U, username) == {u \in U : SqlEq(u.username, PgText(username))}

\* SELECT * FROM users WHERE username = $1 AND password = $2
SelectByUsernamePassword(U, username, password) ==
    {u \in U : SqlEq(u.username, PgText(username)) /\ SqlEq(u.password, PgText(password))}

\* SELECT username FROM users WHERE id = $1
SelectById(U, id) == {u \in U : u.id = id}

\* ----------------------------------------------------- POST /api/login
\* LoginV1 with a message of its own for a username without a row.
LoginV1_NamesMissingUser(U, username, password) ==
    IF Falsy(username) \/ Falsy(password)
    THEN Reply(400, Err("Username and password are required"), 0)
    ELSE LET rows == SelectByUsername(U, username)
         IN  IF rows = {}
             THEN Reply(401, Err("Unknown username"), 1)
             ELSE LET user == CHOOSE u \in rows : TRUE
                  IN  IF user.password # password
                      THEN Reply(401, Err("Invalid username or password"), 1)
                      ELSE Reply(200, Public(user), 1)

LoginV1(U, username, password) ==
    IF Falsy(username) \/ Falsy(password)
    THEN Reply(400, Err("Username and password are required"), 0)
    ELSE LET rows == SelectByUsername(U, username)
         IN  IF rows = {}
             THEN Reply(401, Err("Invalid username or password"), 1)
             ELSE LET user == CHOOSE u \in rows : TRUE
                  IN  IF user.password # password
                      THEN Reply(401, Err("Invalid username or password"), 1)
                      ELSE Reply(200, Public(user), 1)

LoginV2(U, username, password) ==
    LET rows == SelectByUsername(U, username)
    IN  IF rows = {} \/ (CHOOSE u \in rows : TRUE).password # password
        THEN Reply(401, Err("Invalid credentials"), 1)
        ELSE Reply(200, Public(CHOOSE u \in rows : TRUE), 1)

LoginV3(U, username, password) ==
    IF Falsy(username) \/ Falsy(password)
    THEN Reply(400, Err("Username and password are required."), 0)
    ELSE LET rows == SelectByUsernamePassword(U, username, password)
         IN  IF rows # {}
             THEN Reply(200, Public(CHOOSE u \in rows : TRUE), 1)
             ELSE Reply(401, Err("Invalid credentials"), 1)

LoginV4(U, username, password) ==
    IF Falsy(username) \/ Falsy(password)
    THEN Reply(400, Err("Username and password are required."), 0)
    ELSE LET rows == SelectByUsername(U, username)
         IN  IF rows = {}
             THEN Reply(401, Err("Invalid username or password."), 1)
             ELSE LET user == CHOOSE u \in rows : TRUE
                  IN  IF password = user.password
                      THEN Reply(200, Public(user), 1)
                      ELSE Reply(401, Err("Invalid username or password."), 1)

\* LoginV5 without `delete user.password`.
LoginV5_WholeRow(U, username, password) ==
    IF Falsy(username) \/ Falsy(password)
    THEN Reply(400, Err("Username and password required"), 0)
    ELSE LET rows == SelectByUsernamePassword(U, username, password)
         IN  IF rows # {}
             THEN Reply(200, CHOOSE u \in rows : TRUE, 1)
             ELSE Reply(401, Err("Invalid username or password"), 1)

\* delete user.password; res.json(user)
LoginV5(U, username, password) ==
    IF Falsy(username) \/ Falsy(password)
    THEN Reply(400, Err("Username and password required"), 0)
    ELSE LET rows == SelectByUsernamePassword(U, username, password)
         IN  IF rows # {}
             THEN LET user == CHOOSE u \in rows : TRUE
                  IN  Reply(200, [k \in (DOMAIN user) \ {"password"} |-> user[k]], 1)
             ELSE Reply(401, Err("Invalid username or password"), 1)

Login(v, U, username, password) ==
    CASE v = 1 -> LoginV1(U, username, password)
      [] v = 2 -> LoginV2(U, username, password)
      [] v = 3 -> LoginV3(U, username, password)
      [] v = 4 -> LoginV4(U, username, password)
      [] v = 5 -> LoginV5(U, username, password)

\* ----------------------------------------------------- POST /api/users
CreateUserV1(U, seq, username, password, role) ==
    IF Falsy(username) \/ Falsy(password) \/ Falsy(role)
    THEN Result("done", 400, Err("Username, password, and role are required"), U, seq, 0)
    ELSE LET ins == InsertUser(U, seq, username, password, role)
         IN  IF ins.code = "23505"
             THEN Result("done", 409, Err("Username already exists"), ins.users, ins.seq, 1)
             ELSE Result("done", 201, CHOOSE x \in ins.rows : TRUE, ins.users, ins.seq, 1)

\* No validation, and every error of the statement is answered 500.
CreateUserV2(U, seq, username, password, role) ==
    LET ins == InsertUser(U, seq, username, password, role)
    IN  IF ins.code # ""
        THEN Result("done", 500, Err("Server error"), ins.users, ins.seq, 1)
        ELSE Result("done", 201, CHOOSE x \in ins.rows : TRUE, ins.users, ins.seq, 1)

CreateUserV3(U, seq, username, password, role) ==
    IF Falsy(username) \/ Falsy(password) \/ Falsy(role)
    THEN Result("done", 400, Err("All fields are required"), U, seq, 0)
    ELSE LET ins == InsertUser(U, seq, username, password, role)
         IN  IF ins.code = "23505"
             THEN Result("done", 409, Err("Username already exists"), ins.users, ins.seq, 1)
             ELSE Result("done", 201, CHOOSE x \in ins.rows : TRUE, ins.users, ins.seq, 1)

CreateUserV4(U, seq, username, password, role) ==
    IF Falsy(username) \/ Falsy(password) \/ Falsy(role)
    THEN Result("done", 400, Err("Username, password, and role are required."), U, seq, 0)
    ELSE LET ins == InsertUser(U, seq, username, password, role)
         IN  IF ins.code = "23505"
             THEN Result("done", 409, Err("This username is already taken."), ins.users, ins.seq, 1)
             ELSE Result("done", 201, CHOOSE x \in ins.rows : TRUE, ins.users, ins.seq, 1)

\* Variant 5, up to its first await: validation and the SELECT pre-check.
\* pc "insert" = the handler goes on to await the INSERT.
CreateUserV5Check(U, seq, username, password, role) ==
    IF Falsy(username) \/ Falsy(password) \/ Falsy(role)
    THEN Result("done", 400, Err("All fields are required"), U, seq, 0)
    ELSE IF SelectByUsername(U, username) # {}
         THEN Result("done", 409, Err("Username already exists"), U, seq, 1)
         ELSE Result("insert", 0, NoBody, U, seq, 1)

\* CreateUserV5Insert without the check of err.code in its catch block.
CreateUserV5Insert_NoConflictCheck(U, seq, username, password, role) ==
    LET ins == InsertUser(U, seq, username, password, role)
    IN  IF ins.code # ""
        THEN Result("done", 500, Err("Server error"), ins.users, ins.seq, 1)
        ELSE Result("done", 201, CHOOSE x \in ins.rows : TRUE, ins.users, ins.seq, 1)

\* Variant 5, from the INSERT on.
CreateUserV5Insert(U, seq, username, password, role) ==
    LET ins == InsertUser(U, seq, username, password, role)
    IN  IF ins.code = "23505"
        THEN Result("done", 409, Err("Username already exists."), ins.users, ins.seq, 1)
        ELSE Result("done", 201, CHOOSE x \in ins.rows : TRUE, ins.users, ins.seq, 1)

CreateUser(v, U, seq, username, password, role) ==
    CASE v = 1 -> CreateUserV1(U, seq, username, password, role)
      [] v = 2 -> CreateUserV2(U, seq, username, password, role)
      [] v = 3 -> CreateUserV3(U, seq, username, password, role)
      [] v = 4 -> CreateUserV4(U, seq, username, password, role)
      [] v = 5 -> CreateUserV5Check(U, seq, username, password, role)

\* --------------------------------------------------- PUT /api/users/:id
\* The handler of variant 1 running UPDATE users SET role = $1 WHERE id = $2
\* whether or not a password is supplied.
UpdateUserV1_RoleOnly(U, seq, id, password, role) ==
    IF Falsy(role)
    THEN Result("done", 400, Err("Role is required"), U, seq, 0)
    ELSE LET upd == UpdateRole(U, id, role)
         IN  IF upd.rows = {}
             THEN Result("done", 404, Err("User not found"), upd.users, seq, 1)
             ELSE Result("done", 200, CHOOSE x \in upd.rows : TRUE, upd.users, seq, 1)

UpdateUserV1(U, seq, id, password, role) ==
    IF Falsy(role)
    THEN Result("done", 400, Err("Role is required"), U, seq, 0)
    ELSE LET upd == IF ~Falsy(password) THEN UpdatePasswordRole(U, id, password, role)
                                        ELSE UpdateRole(U, id, role)
         IN  IF upd.rows = {}
             THEN Result("done", 404, Err("User not found"), upd.users, seq, 1)
             ELSE Result("done", 200, CHOOSE x \in upd.rows : TRUE, upd.users, seq, 1)

\* res.json(result.rows[0]) with no row: status 200 and no body.
UpdateUserV2(U, seq, id, password, role) ==
    LET upd == IF ~Falsy(password) THEN UpdatePasswordRole(U, id, password, role)
                                   ELSE UpdateRole(U, id, role)
    IN  IF upd.rows = {}
        THEN Result("done", 200, NoBody, upd.users, seq, 1)
        ELSE Result("done", 200, CHOOSE x \in upd.rows : TRUE, upd.users, seq, 1)

UpdateUserV3(U, seq, id, password, role) ==
    IF Falsy(role)
    THEN Result("done", 400, Err("Role is required"), U, seq, 0)
    ELSE LET upd == IF ~Falsy(password) THEN UpdatePasswordRole(U, id, password, role)
                                        ELSE UpdateRole(U, id, role)
         IN  IF upd.rows = {}
             THEN Result("done", 200, NoBody, upd.users, seq, 1)
             ELSE Result("done", 200, CHOOSE x \in upd.rows : TRUE, upd.users, seq, 1)

UpdateUserV4(U, seq, id, password, role) ==
    IF Falsy(password) \/ Falsy(role)
    THEN Result("done", 400, Err("Password and role are required."), U, seq, 0)
    ELSE LET upd == UpdatePasswordRole(U, id, password, role)
         IN  IF upd.rows = {}
             THEN Result("done", 404, Err("User not found."), upd.users, seq, 1)
             ELSE Result("done", 200, CHOOSE x \in upd.rows : TRUE, upd.users, seq, 1)

UpdateUserV5(U, seq, id, password, role) ==
    IF Falsy(password) \/ Falsy(role)
    THEN Result("done", 400, Err("Password and role are required"), U, seq, 0)
    ELSE LET upd == UpdatePasswordRole(U, id, password, role)
         IN  IF upd.rows # {}
             THEN Result("done", 200, CHOOSE x \in upd.rows : TRUE, upd.users, seq, 1)
             ELSE Result("done", 404, Err("User not found"), upd.users, seq, 1)

UpdateUser(v, U, seq, id, password, role) ==
    CASE v = 1 -> UpdateUserV1(U, seq, id, password, role)
      [] v = 2 -> UpdateUserV2(U, seq, id, password, role)
      [] v = 3 -> UpdateUserV3(U, seq, id, password, role)
      [] v = 4 -> UpdateUserV4(U, seq, id, password, role)
      [] v = 5 -> UpdateUserV5(U, seq, id, password, role)

\* ------------------------------------------------ DELETE /api/users/:id
DeleteUserV1(U, seq, id) ==
    LET del == DeleteUserRow(U, id)
    IN  IF del.rows = {}
        THEN Result("done", 404, Err("User not found"), del.users, seq, 1)
        ELSE Result("done", 204, NoBody, del.users, seq, 1)

DeleteUserV2(U, seq, id) ==
    LET del == DeleteUserRow(U, id)
    IN  Result("done", 204, NoBody, del.users, seq, 1)

DeleteUserV3(U, seq, id) ==
    LET del == DeleteUserRowExcept(U, id, "admin")
    IN  Result("done", 204, NoBody, del.users, seq, 1)

DeleteUserV4(U, seq, id) ==
    LET del == DeleteUserRow(U, id)
    IN  IF del.rows = {}
        THEN Result("done", 404, Err("User not found."), del.users, seq, 1)
        ELSE Result("done", 200, Msg("User deleted successfully."), del.users, seq, 1)

\* Variant 5, up to its first await: the SELECT of the username.
\* pc "delete" = the handler goes on to await the DELETE.
DeleteUserV5Check(U, seq, id) ==
    LET userCheck == SelectById(U, id)
    IN  IF userCheck # {} /\ (CHOOSE u \in userCheck : TRUE).username = "admin"
        THEN Result("done", 403, Err("Cannot delete the main admin account"), U, seq, 1)
        ELSE Result("delete", 0, NoBody, U, seq, 1)

\* Variant 5, from the DELETE on.
DeleteUserV5Delete(U, seq, id) ==
    LET del == DeleteUserRow(U, id)
    IN  IF del.rows # {}
        THEN Result("done", 204, NoBody, del.users, seq, 1)
        ELSE Result("done", 404, Err("User not found"), del.users, seq, 1)

DeleteUser(v, U, seq, id) ==
    CASE v = 1 -> DeleteUserV1(U, seq, id)
      [] v = 2 -> DeleteUserV2(U, seq, id)
      [] v = 3 -> DeleteUserV3(U, seq, id)
      [] v = 4 -> DeleteUserV4(U, seq, id)
      [] v = 5 -> DeleteUserV5Check(U, seq, id)

\* ================================================================ assets
\* assets(id, assetprefix, ..., notes): the columns besides id.
AssetColumns ==
    {"assetprefix", "assetnumber", "assetname", "category", "status",
     "employeename", "employeecode", "cugmobile", "department", "designation",
     "date", "assetmake", "assetserial", "location", "notes"}

\* req.body.k: undefined when the body has no key k.
Field(b, k) == IF k \in DOMAIN b THEN b[k] ELSE NULL

\* Request bodies: the keys of the front end (mixed case) and the same
\* body with the column names as keys.
MixedBody(number, name) ==
    [assetPrefix |-> "LT", assetNumber |-> number, assetName |-> name,
     category |-> "Laptop", status |-> "Assigned", employeeName |-> "Ann",
     employeeCode |-> "E1", cugMobile |-> "555", department |-> "IT",
     designation |-> "Eng", date |-> "2024-01-01", assetMake |-> "Dell",
     assetSerial |-> "S1", location |-> "HQ", notes |-> "n1"]

LowerBody(number, name) ==
    [assetprefix |-> "LT", assetnumber |-> number, assetname |-> name,
     category |-> "Laptop", status |-> "Assigned", employeename |-> "Ann",
     employeecode |-> "E1", cugmobile |-> "555", department |-> "IT",
     designation |-> "Eng", date |-> "2024-01-01"]

AssetNumberIn == {"001", "002"}
AssetNameIn == {"Dell Laptop", NULL}
AssetBodyIn ==
    {MixedBody(n, a) : n \in AssetNumberIn, a \in AssetNameIn}
      \cup {LowerBody(n, "Dell Laptop") : n \in AssetNumberIn}
AssetIdIn == 1..MaxAssetId

\* The composite uniqueness constraint on (assetprefix, assetnumber).
AssetKeyTaken(A, prefix, number) ==
    \E a \in A : SqlEq(a.assetprefix, prefix) /\ SqlEq(a.assetnumber, number)

\* INSERT INTO assets (<the columns of vals>) VALUES (...) RETURNING *
\* A column the statement does not name is NULL.
InsertAsset(A, seq, vals) ==
    LET row == [c \in AssetColumns \cup {"id"} |->
                   IF c = "id" THEN seq
                   ELSE IF c \in DOMAIN vals THEN vals[c] ELSE NULL]
    IN  IF AssetKeyTaken(A, vals.assetprefix, vals.assetnumber)
        THEN [code |-> "23505", rows |-> {}, assets |-> A, seq |-> seq + 1]
        ELSE [code |-> "", rows |-> {row}, assets |-> A \cup {row}, seq |-> seq + 1]

\* DELETE FROM assets WHERE id = $1 [RETURNING ...]
DeleteAssetRow(A, id) ==
    LET hit == {a \in A : a.id = id}
    IN  [rows |-> hit, assets |-> A \ hit]

\* The eleven values every variant but 4 reads from the mixed-case keys.
MixedValues(b) ==
    [assetprefix |-> Field(b, "assetPrefix"), assetnumber |-> Field(b, "assetNumber"),
     assetname |-> Field(b, "assetName"), category |-> Field(b, "category"),
     status |-> Field(b, "status"), employeename |-> Field(b, "employeeName"),
     employeecode |-> Field(b, "employeeCode"), cugmobile |-> Field(b, "cugMobile"),
     department |-> Field(b, "department"), designation |-> Field(b, "designation"),
     date |-> Field(b, "date")]

\* ---------------------------------------------------- POST /api/assets
CreateAssetV1(A, seq, b) ==
    LET vals == MixedValues(b) @@
                [assetmake |-> Field(b, "assetMake"), assetserial |-> Field(b, "assetSerial")]
        ins == InsertAsset(A, seq, vals)
    IN  IF ins.code = "23505"
        THEN Result("done", 409, Err("This asset number already exists"), ins.assets, ins.seq, 1)
        ELSE Result("done", 201, CHOOSE x \in ins.rows : TRUE, ins.assets, ins.seq, 1)

CreateAssetV2(A, seq, b) ==
    LET vals == MixedValues(b) @@
                [assetmake |-> Field(b, "assetMake"), assetserial |-> Field(b, "assetSerial"),
                 location |-> Field(b, "location"), notes |-> Field(b, "notes")]
        ins == InsertAsset(A, seq, vals)
    IN  IF ins.code # ""
        THEN Result("done", 500, Err("Server error"), ins.assets, ins.seq, 1)
        ELSE Result("done", 201, CHOOSE x \in ins.rows : TRUE, ins.assets, ins.seq, 1)

CreateAssetV3(A, seq, b) ==
    LET ins == InsertAsset(A, seq, MixedValues(b))
    IN  IF ins.code = "23505"
        THEN Result("done", 409, Err("This asset number already exists."), ins.assets, ins.seq, 1)
        ELSE Result("done", 201, CHOOSE x \in ins.rows : TRUE, ins.assets, ins.seq, 1)

\* Variant 4 destructures the column names from the body and validates.
CreateAssetV4(A, seq, b) ==
    LET vals == [c \in {"assetprefix", "assetnumber", "assetname", "category", "status",
                        "employeename", "employeecode", "cugmobile", "department",
                        "designation", "date"} |-> Field(b, c)]
    IN  IF \/ Falsy(vals.assetprefix) \/ Falsy(vals.assetnumber) \/ Falsy(vals.assetname)
           \/ Falsy(vals.category) \/ Falsy(vals.status) \/ Falsy(vals.date)
        THEN Result("done", 400, Err("Missing required asset fields."), A, seq, 0)
        ELSE LET ins == InsertAsset(A, seq, vals)
             IN  IF ins.code = "23505"
                 THEN Result("done", 409, Err("This asset number already exists."),
                             ins.assets, ins.seq, 1)
                 ELSE Result("done", 201, CHOOSE x \in ins.rows : TRUE, ins.assets, ins.seq, 1)

CreateAssetV5(A, seq, b) ==
    LET ins == InsertAsset(A, seq, MixedValues(b))
    IN  IF ins.code = "23505"
        THEN Result("done", 409,
                    Err("This asset number already exists. Please use a unique number."),
                    ins.assets, ins.seq, 1)
        ELSE Result("done", 201, CHOOSE x \in ins.rows : TRUE, ins.assets, ins.seq, 1)

CreateAsset(v, A, seq, b) ==
    CASE v = 1 -> CreateAssetV1(A, seq, b)
      [] v = 2 -> CreateAssetV2(A, seq, b)
      [] v = 3 -> CreateAssetV3(A, seq, b)
      [] v = 4 -> CreateAssetV4(A, seq, b)
      [] v = 5 -> CreateAssetV5(A, seq, b)

\* ----------------------------------------------- DELETE /api/assets/:id
DeleteAssetV1(A, seq, id) ==
    LET del == DeleteAssetRow(A, id)
    IN  IF del.rows = {}
        THEN Result("done", 404, Err("Asset not found"), del.assets, seq, 1)
        ELSE Result("done", 204, NoBody, del.assets, seq, 1)

DeleteAssetV2(A, seq, id) ==
    LET del == DeleteAssetRow(A, id)
    IN  Result("done", 204, NoBody, del.assets, seq, 1)

DeleteAssetV3(A, seq, id) ==
    LET del == DeleteAssetRow(A, id)
    IN  Result("done", 204, NoBody, del.assets, seq, 1)

DeleteAssetV4(A, seq, id) ==
    LET del == DeleteAssetRow(A, id)
    IN  IF del.rows = {}
        THEN Result("done", 404, Err("Asset not found."), del.assets, seq, 1)
        ELSE Result("done", 200, Msg("Asset deleted successfully."), del.assets, seq, 1)

DeleteAssetV5(A, seq, id) ==
    LET del == DeleteAssetRow(A, id)
    IN  IF del.rows # {}
        THEN Result("done", 204, NoBody, del.assets, seq, 1)
        ELSE Result("done", 404, Err("Asset not found"), del.assets, seq, 1)

DeleteAsset(v, A, seq, id) ==
    CASE v = 1 -> DeleteAssetV1(A, seq, id)
      [] v = 2 -> DeleteAssetV2(A, seq, id)
      [] v = 3 -> DeleteAssetV3(A, seq, id)
      [] v = 4 -> DeleteAssetV4(A, seq, id)
      [] v = 5 -> DeleteAssetV5(A, seq, id)

\* ------------------------------------- GET /api/users, GET /api/assets
\* The orders in which a SELECT without ORDER BY may return the rows of T.
AnyOrder(T) ==
    {f \in [1..Cardinality(T) -> T] :
        \A i, j \in 1..Cardinality(T) : i # j => f[i] # f[j]}

\* ... ORDER BY id ASC
OrderById(T) == {f \in AnyOrder(T) : \A i, j \in DOMAIN f : i < j => f[i].id < f[j].id}

\* SELECT * FROM users; res.json(result.rows)
ListUsers_WholeRows(v, U) == {Reply(200, f, 1) : f \in AnyOrder(U)}

\* SELECT id, username, role FROM users; res.json(result.rows)
\* The statement and the response are the same in all five variants.
ListUsers(v, U) == {Reply(200, [i \in DOMAIN f |-> Public(f[i])], 1) : f \in AnyOrder(U)}

\* SELECT * FROM assets
ListAssetsV1(A) == {Reply(200, f, 1) : f \in AnyOrder(A)}

\* SELECT * FROM assets ORDER BY id ASC
ListAssetsV2(A) == {Reply(200, f, 1) : f \in OrderById(A)}

ListAssetsV3(A) == {Reply(200, f, 1) : f \in AnyOrder(A)}

ListAssetsV4(A) == {Reply(200, f, 1) : f \in AnyOrder(A)}

ListAssetsV5(A) == {Reply(200, f, 1) : f \in OrderById(A)}

ListAssets(v, A) ==
    CASE v = 1 -> ListAssetsV1(A)
      [] v = 2 -> ListAssetsV2(A)
      [] v = 3 -> ListAssetsV3(A)
      [] v = 4 -> ListAssetsV4(A)
      [] v = 5 -> ListAssetsV5(A)

\* --------------------------------------------------- PUT /api/assets/:id
\* UPDATE assets SET <the columns of vals> WHERE id = $n RETURNING *, the
\* row written before the constraint is found violated.
UpdateAssetRow_NoRollback(A, id, vals) ==
    LET hit == {a \in A : a.id = id}
        new == {[c \in DOMAIN a |-> IF c \in DOMAIN vals THEN vals[c] ELSE a[c]] : a \in hit}
    IN  IF hit # {} /\ AssetKeyTaken(A \ hit, vals.assetprefix, vals.assetnumber)
        THEN [code |-> "23505", rows |-> {}, assets |-> (A \ hit) \cup new]
        ELSE [code |-> "", rows |-> new, assets |-> (A \ hit) \cup new]

\* UPDATE assets SET <the columns of vals> WHERE id = $n RETURNING *
UpdateAssetRow(A, id, vals) ==
    LET hit == {a \in A : a.id = id}
        new == {[c \in DOMAIN a |-> IF c \in DOMAIN vals THEN vals[c] ELSE a[c]] : a \in hit}
    IN  IF hit # {} /\ AssetKeyTaken(A \ hit, vals.assetprefix, vals.assetnumber)
        THEN [code |-> "23505", rows |-> {}, assets |-> A]
        ELSE [code |-> "", rows |-> new, assets |-> (A \ hit) \cup new]

UpdateAssetV1(A, seq, id, b) ==
    LET vals == MixedValues(b) @@
                [assetmake |-> Field(b, "assetMake"), assetserial |-> Field(b, "assetSerial")]
        upd == UpdateAssetRow(A, id, vals)
    IN  IF upd.code = "23505"
        THEN Result("done", 409, Err("This asset number already exists"), upd.assets, seq, 1)
        ELSE IF upd.rows = {}
             THEN Result("done", 404, Err("Asset not found"), upd.assets, seq, 1)
             ELSE Result("done", 200, CHOOSE x \in upd.rows : TRUE, upd.assets, seq, 1)

UpdateAssetV2(A, seq, id, b) ==
    LET vals == MixedValues(b) @@
                [assetmake |-> Field(b, "assetMake"), assetserial |-> Field(b, "assetSerial"),
                 location |-> Field(b, "location"), notes |-> Field(b, "notes")]
        upd == UpdateAssetRow(A, id, vals)
    IN  IF upd.code # ""
        THEN Result("done", 500, Err("Server error"), upd.assets, seq, 1)
        ELSE IF upd.rows = {}
             THEN Result("done", 200, NoBody, upd.assets, seq, 1)
             ELSE Result("done", 200, CHOOSE x \in upd.rows : TRUE, upd.assets, seq, 1)

UpdateAssetV3(A, seq, id, b) ==
    LET upd == UpdateAssetRow(A, id, MixedValues(b))
    IN  IF upd.code = "23505"
        THEN Result("done", 409, Err("This asset number already exists."), upd.assets, seq, 1)
        ELSE IF upd.rows = {}
             THEN Result("done", 200, NoBody, upd.assets, seq, 1)
             ELSE Result("done", 200, CHOOSE x \in upd.rows : TRUE, upd.assets, seq, 1)

UpdateAssetV4(A, seq, id, b) ==
    LET vals == [c \in {"assetprefix", "assetnumber", "assetname", "category", "status",
                        "employeename", "employeecode", "cugmobile", "department",
                        "designation", "date"} |-> Field(b, c)]
    IN  IF \/ Falsy(vals.assetprefix) \/ Falsy(vals.assetnumber) \/ Falsy(vals.assetname)
           \/ Falsy(vals.category) \/ Falsy(vals.status) \/ Falsy(vals.date)
        THEN Result("done", 400, Err("Missing required asset fields."), A, seq, 0)
        ELSE LET upd == UpdateAssetRow(A, id, vals)
             IN  IF upd.code = "23505"
                 THEN Result("done", 409, Err("This asset number already exists."),
                             upd.assets, seq, 1)
                 ELSE IF upd.rows = {}
                      THEN Result("done", 404, Err("Asset not found."), upd.assets, seq, 1)
                      ELSE Result("done", 200, CHOOSE x \in upd.rows : TRUE,
                                  upd.assets, seq, 1)

UpdateAssetV5(A, seq, id, b) ==
    LET upd == UpdateAssetRow(A, id, MixedValues(b))
    IN  IF upd.code = "23505"
        THEN Result("done", 409,
                    Err("This asset number already exists. Please use a unique number."),
                    upd.assets, seq, 1)
        ELSE IF upd.rows # {}
             THEN Result("done", 200, CHOOSE x \in upd.rows : TRUE, upd.assets, seq, 1)
             ELSE Result("done", 404, Err("Asset not found"), upd.assets, seq, 1)

UpdateAsset(v, A, seq, id, b) ==
    CASE v = 1 -> UpdateAssetV1(A, seq, id, b)
      [] v = 2 -> UpdateAssetV2(A, seq, id, b)
      [] v = 3 -> UpdateAssetV3(A, seq, id, b)
      [] v = 4 -> UpdateAssetV4(A, seq, id, b)
      [] v = 5 -> UpdateAssetV5(A, seq, id, b)

\* --------------------------------------------------------------- cors
\* The Origin headers of the requests: none, one from the lists of variants
\* 1 and 2, one from the lists of variants 3 and 5, one from no list.
OriginIn ==
    {NULL, "https://moslemerror-maker.github.io", "http://localhost:8000",
     "https://evil.example"}

\* const allowedOrigins = [...]. Variant 4 declares none. The first entry
\* of part_000 is taken as the string its line spells out.
AllowedOrigins(v) ==
    CASE v = 1 -> {"https://moslemerror-maker.github.io",
                   "https://asset-app-backend-2tgc.onrender.com"}
      [] v = 2 -> {"https://moslemerror-maker.github.io", "https://best-itasset.online",
                   "https://www.best-itasset.online",
                   "https://asset-app-backend-2tgc.onrender.com"}
      [] v = 3 -> {"https://gleeful-crepe-a5790f.netlify.app", "http://localhost:8000"}
      [] v = 4 -> {}
      [] v = 5 -> {"httpss://gleeful-crepe-a5790f.netlify.app/,", "http://localhost:8000"}

\* The origin function given to cors(): TRUE for callback(null, true), FALSE
\* for callback(new Error(...)).
CorsV1(o) ==
    IF Falsy(o) THEN TRUE
    ELSE IF o \notin AllowedOrigins(1) THEN FALSE
    ELSE TRUE

CorsV2(o) ==
    IF Falsy(o) THEN TRUE
    ELSE IF o \notin AllowedOrigins(2) THEN FALSE
    ELSE TRUE

CorsV3(o) == IF Falsy(o) \/ o \in AllowedOrigins(3) THEN TRUE ELSE FALSE

\* app.use(cors()): every origin is let through.
CorsV4(o) == TRUE

CorsV5(o) == IF Falsy(o) \/ o \in AllowedOrigins(5) THEN TRUE ELSE FALSE

Cors(v, o) ==
    CASE v = 1 -> CorsV1(o)
      [] v = 2 -> CorsV2(o)
      [] v = 3 -> CorsV3(o)
      [] v = 4 -> CorsV4(o)
      [] v = 5 -> CorsV5(o)

\* ------------------------------------------------------- catch blocks
\* err.code of a pool.query that fails for a reason other than a constraint:
\* connection_failure.
ErrCodeIn == {"08006"}

\* The text of the 500 response of the route's catch block.
ServerErrorMsg(v, op) ==
    CASE v \in {1, 3, 5} /\ op = "POST /api/login" -> "Server error during login"
      [] v = 4 /\ op = "POST /api/login" -> "Server error during login."
      [] v = 4 /\ op = "GET /api/assets" -> "Failed to retrieve assets."
      [] v = 4 /\ op = "POST /api/assets" -> "Server error, failed to create asset."
      [] v = 4 /\ op = "PUT /api/assets/:id" -> "Server error, failed to update asset."
      [] v = 4 /\ op = "DELETE /api/assets/:id" -> "Server error, failed to delete asset."
      [] v = 4 /\ op = "GET /api/users" -> "Failed to retrieve users."
      [] v = 4 /\ op = "POST /api/users" -> "Server error, failed to create user."
      [] v = 4 /\ op = "PUT /api/users/:id" -> "Server error, failed to update user."
      [] v = 4 /\ op = "DELETE /api/users/:id" -> "Server error, failed to delete user."
      [] OTHER -> "Server error"

\* catch (err) { ... } for an err.code that is not '23505': no response is sent
\* and the error is only logged.
Catch_NoResponse(v, op, code) == <<>>

\* catch (err) { ... } for an err.code that is not '23505': the responses the
\* block sends, in order.
Catch(v, op, code) == <<[status |-> 500, body |-> Err(ServerErrorMsg(v, op))]>>

\* ------------------------------------------------------------ start-up
\* if (!NEON_CONNECTION_STRING) { process.exit(1); } ... app.listen(...)
StartupV1(dbUrl) == IF ~dbUrl THEN "exited" ELSE "listening"

StartupV2(dbUrl) == IF ~dbUrl THEN "exited" ELSE "listening"

\* Variants 3, 4 and part_000 hand the connection string to the Pool
\* unchecked and go on to app.listen.
StartupV3(dbUrl) == "listening"

StartupV4(dbUrl) == "listening"

StartupV5(dbUrl) == "listening"

Startup(v, dbUrl) ==
    CASE v = 1 -> StartupV1(dbUrl)
      [] v = 2 -> StartupV2(dbUrl)
      [] v = 3 -> StartupV3(dbUrl)
      [] v = 4 -> StartupV4(dbUrl)
      [] v = 5 -> StartupV5(dbUrl)

\* ======================================================= the state machine
VARIABLES
    variant,    \* which of the five servers is deployed
    users,      \* the rows of table users
    userSeq,    \* next value of the users id sequence
    assets,     \* the rows of table assets
    assetSeq,   \* next value of the assets id sequence
    req,        \* per request slot: the request, where its handler is, its response
    origin,     \* per request slot: the Origin header of the request, NULL for none
    proc        \* the server process: whether DATABASE_URL is set, and its phase

vars == <<variant, users, userSeq, assets, assetSeq, req, origin, proc>>

Idle ==
    [op |-> "none", pc |-> "idle", id |-> 0, username |-> NULL, password |-> NULL,
     role |-> NULL, payload |-> NoBody, status |-> 0, body |-> NoBody, stmts |-> 0,
     err |-> "", sent |-> 0]

\* A request with its inputs, and where its handler got to.
Request(op, id, username, password, role, payload, res) ==
    [op |-> op, pc |-> res.pc, id |-> id, username |-> username, password |-> password,
     role |-> role, payload |-> payload, status |-> res.status, body |-> res.body,
     stmts |-> res.stmts, err |-> "", sent |-> IF res.pc = "done" THEN 1 ELSE 0]

\* The continuation of a handler after its second statement.
Continued(rq, res) ==
    [rq EXCEPT !.pc = res.pc, !.status = res.status, !.body = res.body,
               !.stmts = @ + res.stmts, !.sent = IF res.pc = "done" THEN @ + 1 ELSE @]

\* Every response sent so far has been collected by its client.
Quiet == \A r \in Req : req[r].pc # "done"

\* Slots are interchangeable: a new request takes the first free one, and
\* only once the responses sent so far have been collected.
Accepts(r) ==
    /\ proc.phase = "listening"
    /\ req[r].pc = "idle"
    /\ \A q \in Req : q < r => req[q].pc # "idle"
    /\ Quiet

\* The request of slot r gets past app.use(cors(...)) to its route.
Free(r) == Accepts(r) /\ Cors(variant, origin[r])

\* The server is listening, DATABASE_URL was set; no request has arrived.
Init ==
    /\ variant \in Variants
    /\ users = {AdminRow}
    /\ userSeq = 2
    /\ assets = {}
    /\ assetSeq = 1
    /\ req = [r \in Req |-> Idle]
    /\ origin = [r \in Req |-> NULL]
    /\ proc = [dbUrl |-> TRUE, phase |-> "listening"]

PostLogin(r, username, password) ==
    /\ Free(r)
    /\ LET res == Login(variant, users, username, password)
       IN  req' = [req EXCEPT ![r] =
                     Request("POST /api/login", 0, username, password, NULL, NoBody, res)]
    /\ UNCHANGED <<proc, origin, variant, users, userSeq, assets, assetSeq>>

PostUsers(r, username, password, role) ==
    /\ Free(r)
    /\ userSeq <= MaxUserId
    /\ LET res == CreateUser(variant, users, userSeq, username, password, role)
       IN  /\ req' = [req EXCEPT ![r] =
                        Request("POST /api/users", 0, username, password, role, NoBody, res)]
           /\ users' = res.table
           /\ userSeq' = res.seq
    /\ UNCHANGED <<proc, origin, variant, assets, assetSeq>>

\* Variant 5: the INSERT that follows the pre-check.
PostUsersInsert(r) ==
    /\ variant = 5
    /\ req[r].op = "POST /api/users" /\ req[r].pc = "insert"
    /\ userSeq <= MaxUserId
    /\ LET res == CreateUserV5Insert(users, userSeq, req[r].username,
                                     req[r].password, req[r].role)
       IN  /\ req' = [req EXCEPT ![r] = Continued(req[r], res)]
           /\ users' = res.table
           /\ userSeq' = res.seq
    /\ UNCHANGED <<proc, origin, variant, assets, assetSeq>>

PutUsers(r, id, password, role) ==
    /\ Free(r)
    /\ LET res == UpdateUser(variant, users, userSeq, id, password, role)
       IN  /\ req' = [req EXCEPT ![r] =
                        Request("PUT /api/users/:id", id, NULL, password, role, NoBody, res)]
           /\ users' = res.table
    /\ UNCHANGED <<proc, origin, variant, userSeq, assets, assetSeq>>

DeleteUsers(r, id) ==
    /\ Free(r)
    /\ LET res == DeleteUser(variant, users, userSeq, id)
       IN  /\ req' = [req EXCEPT ![r] =
                        Request("DELETE /api/users/:id", id, NULL, NULL, NULL, NoBody, res)]
           /\ users' = res.table
    /\ UNCHANGED <<proc, origin, variant, userSeq, assets, assetSeq>>

\* Variant 5: the DELETE that follows the SELECT of the username.
DeleteUsersDelete(r) ==
    /\ variant = 5
    /\ req[r].op = "DELETE /api/users/:id" /\ req[r].pc = "delete"
    /\ LET res == DeleteUserV5Delete(users, userSeq, req[r].id)
       IN  /\ req' = [req EXCEPT ![r] = Continued(req[r], res)]
           /\ users' = res.table
    /\ UNCHANGED <<proc, origin, variant, userSeq, assets, assetSeq>>

PostAssets(r, b) ==
    /\ Free(r)
    /\ assetSeq <= MaxAssetId
    /\ LET res == CreateAsset(variant, assets, assetSeq, b)
       IN  /\ req' = [req EXCEPT ![r] =
                        Request("POST /api/assets", 0, NULL, NULL, NULL, b, res)]
           /\ assets' = res.table
           /\ assetSeq' = res.seq
    /\ UNCHANGED <<proc, origin, variant, users, userSeq>>

DeleteAssets(r, id) ==
    /\ Free(r)
    /\ LET res == DeleteAsset(variant, assets, assetSeq, id)
       IN  /\ req' = [req EXCEPT ![r] =
                        Request("DELETE /api/assets/:id", id, NULL, NULL, NULL, NoBody, res)]
           /\ assets' = res.table
    /\ UNCHANGED <<proc, origin, variant, users, userSeq, assetSeq>>

GetUsers(r) ==
    /\ Free(r)
    /\ \E res \in ListUsers(variant, users) :
          req' = [req EXCEPT ![r] =
                    Request("GET /api/users", 0, NULL, NULL, NULL, NoBody, res)]
    /\ UNCHANGED <<proc, origin, variant, users, userSeq, assets, assetSeq>>

GetAssets(r) ==
    /\ Free(r)
    /\ \E res \in ListAssets(variant, assets) :
          req' = [req EXCEPT ![r] =
                    Request("GET /api/assets", 0, NULL, NULL, NULL, NoBody, res)]
    /\ UNCHANGED <<proc, origin, variant, users, userSeq, assets, assetSeq>>

PutAssets(r, id, b) ==
    /\ Free(r)
    /\ LET res == UpdateAsset(variant, assets, assetSeq, id, b)
       IN  /\ req' = [req EXCEPT ![r] =
                        Request("PUT /api/assets/:id", id, NULL, NULL, NULL, b, res)]
           /\ assets' = res.table
    /\ UNCHANGED <<proc, origin, variant, users, userSeq, assetSeq>>

\* The requests on /api/login and /api/users, before their handlers run.
UserArrivalIn ==
    {[op |-> "POST /api/login", id |-> 0, username |-> u, password |-> p,
      role |-> NULL, payload |-> NoBody] : u \in UsernameIn, p \in PasswordIn}
    \cup {[op |-> "POST /api/users", id |-> 0, username |-> u, password |-> p,
           role |-> ro, payload |-> NoBody] :
              u \in UsernameIn, p \in PasswordIn, ro \in RoleIn}
    \cup {[op |-> "PUT /api/users/:id", id |-> i, username |-> NULL, password |-> p,
           role |-> ro, payload |-> NoBody] :
              i \in UserIdIn, p \in PasswordIn, ro \in RoleIn}
    \cup {[op |-> "DELETE /api/users/:id", id |-> i, username |-> NULL,
           password |-> NULL, role |-> NULL, payload |-> NoBody] : i \in UserIdIn}
    \cup {[op |-> "GET /api/users", id |-> 0, username |-> NULL, password |-> NULL,
           role |-> NULL, payload |-> NoBody]}

\* The requests on /api/assets.
AssetArrivalIn ==
    {[op |-> "POST /api/assets", id |-> 0, username |-> NULL, password |-> NULL,
      role |-> NULL, payload |-> b] : b \in AssetBodyIn}
    \cup {[op |-> "PUT /api/assets/:id", id |-> i, username |-> NULL, password |-> NULL,
           role |-> NULL, payload |-> b] : i \in AssetIdIn, b \in AssetBodyIn}
    \cup {[op |-> "DELETE /api/assets/:id", id |-> i, username |-> NULL,
           password |-> NULL, role |-> NULL, payload |-> NoBody] : i \in AssetIdIn}
    \cup {[op |-> "GET /api/assets", id |-> 0, username |-> NULL, password |-> NULL,
           role |-> NULL, payload |-> NoBody]}

\* The handler of request a gets as far as its first pool.query.
Queries(a) ==
    CASE a.op = "POST /api/login" ->
            Login(variant, users, a.username, a.password).stmts >= 1
      [] a.op = "POST /api/users" ->
            CreateUser(variant, users, userSeq, a.username, a.password, a.role).stmts >= 1
      [] a.op = "PUT /api/users/:id" ->
            UpdateUser(variant, users, userSeq, a.id, a.password, a.role).stmts >= 1
      [] a.op = "DELETE /api/users/:id" ->
            DeleteUser(variant, users, userSeq, a.id).stmts >= 1
      [] a.op = "POST /api/assets" ->
            CreateAsset(variant, assets, assetSeq, a.payload).stmts >= 1
      [] a.op = "PUT /api/assets/:id" ->
            UpdateAsset(variant, assets, assetSeq, a.id, a.payload).stmts >= 1
      [] a.op = "DELETE /api/assets/:id" ->
            DeleteAsset(variant, assets, assetSeq, a.id).stmts >= 1
      [] OTHER -> TRUE

\* The request rq after a pool.query of its handler was rejected with
\* err.code = code and the catch block sent the responses resp.
Failed(rq, resp, code) ==
    [rq EXCEPT !.pc = IF resp = <<>> THEN "hung" ELSE "done",
               !.status = IF resp = <<>> THEN 0 ELSE resp[1].status,
               !.body = IF resp = <<>> THEN NoBody ELSE resp[1].body,
               !.stmts = @ + 1, !.err = code, !.sent = @ + Len(resp)]

\* The first statement of the handler of request a fails: nothing is stored.
QueryFails(r, a, code) ==
    /\ Free(r)
    /\ Queries(a)
    /\ req' = [req EXCEPT ![r] =
                 Failed([Idle EXCEPT !.op = a.op, !.id = a.id, !.username = a.username,
                                     !.password = a.password, !.role = a.role,
                                     !.payload = a.payload],
                        Catch(variant, a.op, code), code)]
    /\ UNCHANGED <<proc, origin, variant, users, userSeq, assets, assetSeq>>

\* Variant 5: the INSERT that follows the pre-check fails.
PostUsersInsertFails(r, code) ==
    /\ variant = 5
    /\ req[r].op = "POST /api/users" /\ req[r].pc = "insert"
    /\ req' = [req EXCEPT ![r] = Failed(req[r], Catch(variant, req[r].op, code), code)]
    /\ UNCHANGED <<proc, origin, variant, users, userSeq, assets, assetSeq>>

\* Variant 5: the DELETE that follows the SELECT of the username fails.
DeleteUsersDeleteFails(r, code) ==
    /\ variant = 5
    /\ req[r].op = "DELETE /api/users/:id" /\ req[r].pc = "delete"
    /\ req' = [req EXCEPT ![r] = Failed(req[r], Catch(variant, req[r].op, code), code)]
    /\ UNCHANGED <<proc, origin, variant, users, userSeq, assets, assetSeq>>

\* A request arrives from a browser: it carries the Origin header o.
Arrives(r, o) ==
    /\ Accepts(r)
    /\ origin[r] = NULL
    /\ origin' = [origin EXCEPT ![r] = o]
    /\ UNCHANGED <<proc, variant, users, userSeq, assets, assetSeq, req>>

\* The origin function calls back with an Error: cors hands it to Express,
\* whose error handler answers 500; no route handler runs.
CorsRejects(r) ==
    /\ Accepts(r)
    /\ ~Cors(variant, origin[r])
    /\ req' = [req EXCEPT ![r] =
                 [Idle EXCEPT !.op = "*", !.pc = "done", !.status = 500, !.sent = 1]]
    /\ UNCHANGED <<proc, origin, variant, users, userSeq, assets, assetSeq>>

\* The process runs its top-level code up to app.listen, or exits.
Boot ==
    /\ proc.phase = "starting"
    /\ proc' = [proc EXCEPT !.phase = Startup(variant, proc.dbUrl)]
    /\ UNCHANGED <<origin, variant, users, userSeq, assets, assetSeq, req>>

\* The client has its response; the slot takes the next request.
Collect(r) ==
    /\ req[r].pc = "done"
    /\ req' = [req EXCEPT ![r] = Idle]
    /\ origin' = [origin EXCEPT ![r] = NULL]
    /\ UNCHANGED <<proc, variant, users, userSeq, assets, assetSeq>>

\* The requests on /api/login and /api/users.  Users are created with
\* "pw1" or no password and updated to "pw2" or no password; a login tries
\* every password.
NextUsers ==
    \E r \in Req :
        \/ \E u \in UsernameIn, p \in PasswordIn : PostLogin(r, u, p)
        \/ \E u \in UsernameIn, p \in {"pw1", ""}, ro \in RoleIn : PostUsers(r, u, p, ro)
        \/ PostUsersInsert(r)
        \/ \E id \in UserIdIn, p \in {"pw2", ""}, ro \in RoleIn : PutUsers(r, id, p, ro)
        \/ \E id \in UserIdIn : DeleteUsers(r, id)
        \/ DeleteUsersDelete(r)
        \/ GetUsers(r)
        \/ Collect(r)

\* The requests on /api/assets.
NextAssets ==
    \E r \in Req :
        \/ \E b \in AssetBodyIn : PostAssets(r, b)
        \/ \E id \in AssetIdIn : DeleteAssets(r, id)
        \/ \E id \in AssetIdIn, b \in AssetBodyIn : PutAssets(r, id, b)
        \/ GetAssets(r)
        \/ Collect(r)

SpecUsers == Init /\ [][NextUsers]_vars
SpecAssets == Init /\ [][NextAssets]_vars

\* The user routes creating and deleting rows, and every route with a
\* statement that fails.
NextFail ==
    \E r \in Req :
        \/ \E u \in UsernameIn : PostUsers(r, u, "pw1", "user")
        \/ PostUsersInsert(r)
        \/ \E id \in UserIdIn : DeleteUsers(r, id)
        \/ DeleteUsersDelete(r)
        \/ \E a \in UserArrivalIn \cup AssetArrivalIn, code \in ErrCodeIn :
              QueryFails(r, a, code)
        \/ \E code \in ErrCodeIn : PostUsersInsertFails(r, code)
        \/ \E code \in ErrCodeIn : DeleteUsersDeleteFails(r, code)
        \/ Collect(r)

SpecFail == Init /\ [][NextFail]_vars

\* The asset routes called from browsers and from other clients.
NextCors ==
    \/ \E r \in Req, o \in OriginIn \ {NULL} : Arrives(r, o)
    \/ \E r \in Req : CorsRejects(r)
    \/ NextAssets

SpecCors == Init /\ [][NextCors]_vars

\* The process has been launched, with or without DATABASE_URL.
InitBoot ==
    /\ variant \in Variants
    /\ users = {AdminRow}
    /\ userSeq = 2
    /\ assets = {}
    /\ assetSeq = 1
    /\ req = [r \in Req |-> Idle]
    /\ origin = [r \in Req |-> NULL]
    /\ proc \in {[dbUrl |-> d, phase |-> "starting"] : d \in BOOLEAN}

\* Start-up, then the asset routes with statements that work or fail.
NextBoot ==
    \/ Boot
    \/ NextAssets
    \/ \E r \in Req, a \in AssetArrivalIn, code \in ErrCodeIn : QueryFails(r, a, code)

SpecBoot == InitBoot /\ [][NextBoot]_vars

\* ================================================================ claims
\* The step in which the request in slot r arrives (and runs up to its
\* first await or its response).
Starts(r, op) == req[r].pc = "idle" /\ req'[r].pc # "idle" /\ req'[r].op = op

\* The step in which the request in slot r is answered.
Answers(r, op) == req[r].pc # "done" /\ req'[r].pc = "done" /\ req'[r].op = op

\* C1: a create-user request whose username already has a row (password and
\* role non-empty) is answered 409 and stores no second row with that name.
C1_DuplicateUsername409 ==
    [][\A r \in Req :
         ( /\ Starts(r, "POST /api/users")
           /\ UsernameTaken(users, req'[r].username)
           /\ ~Falsy(req'[r].password) /\ ~Falsy(req'[r].role) )
         => /\ req'[r].pc = "done" /\ req'[r].status = 409
            /\ users' = users]_vars

\* C2: a create-asset request carrying the prefix and number of an existing
\* row is answered 409 and leaves the asset table unchanged.
C2_DuplicateAsset409 ==
    [][\A r \in Req :
         ( /\ Starts(r, "POST /api/assets")
           /\ AssetKeyTaken(assets, Field(req'[r].payload, "assetPrefix"),
                                    Field(req'[r].payload, "assetNumber")) )
         => /\ req'[r].pc = "done" /\ req'[r].status = 409
            /\ assets' = assets]_vars

\* ---- C3: the create-user race of variant 5.
\* Only create-user requests, all of them in flight together.
InitRace == Init /\ variant = 5

NextRace ==
    \E r \in Req :
        \/ \E u \in UsernameIn, p \in PasswordIn, ro \in RoleIn : PostUsers(r, u, p, ro)
        \/ PostUsersInsert(r)

SpecRace == InitRace /\ [][NextRace]_vars

\* The valid create-user requests for username u.
Creates(u) ==
    {r \in Req : /\ req[r].op = "POST /api/users" /\ req[r].username = u
                 /\ ~Falsy(req[r].password) /\ ~Falsy(req[r].role)}

\* C3: concurrent valid create-user requests of variant 5 with one username:
\* never two rows with that username, none answered 500, and once all are
\* answered exactly one got 201 (when the name was free before) and every
\* other one 409.
C3_RaceOneCreated ==
    \A u \in UsernameIn \ {NULL} :
        /\ Cardinality({x \in users : x.username = u}) <= 1
        /\ \A r \in Creates(u) : req[r].pc = "done" => req[r].status \in {201, 409}
        /\ ( /\ Cardinality(Creates(u)) >= 2
             /\ \A r \in Creates(u) : req[r].pc = "done"
             /\ ~UsernameTaken({AdminRow}, u) )
           => Cardinality({r \in Creates(u) : req[r].status = 201}) = 1

\* Two requests for the same free username both passed the pre-check, and
\* both have been answered.
C3_Witness ==
    \E r1, r2 \in Creates("bob") :
        /\ r1 # r2
        /\ req[r1].pc = "done" /\ req[r2].pc = "done"
        /\ req[r1].stmts = 2 /\ req[r2].stmts = 2
        /\ req[r1].status = 201 /\ req[r2].status = 409

\* C4: a delete-user request whose id has no row is answered 404 and leaves
\* the users table unchanged.
C4_DeleteAbsent404 ==
    [][\A r \in Req :
         ( /\ Answers(r, "DELETE /api/users/:id")
           /\ SelectById(users, req'[r].id) = {} )
         => req'[r].status = 404 /\ users' = users]_vars

\* C5: an update-user request for an existing id (of a row with a username
\* and a password) with a role and no password is answered 200, leaves the stored password unchanged, and a login with
\* the row's username and that password is then answered 200.
C5_RoleOnlyUpdateKeepsPassword ==
    [][\A r \in Req :
         ( /\ Starts(r, "PUT /api/users/:id")
           /\ ~Falsy(req'[r].role) /\ Falsy(req'[r].password)
           /\ \E u \in SelectById(users, req'[r].id) :
                  ~Falsy(u.username) /\ ~Falsy(u.password) )
         => LET old == CHOOSE u \in SelectById(users, req'[r].id) : TRUE
            IN  /\ req'[r].status = 200
                /\ \E new \in users' : new.id = old.id /\ new.password = old.password
                /\ Login(variant, users', old.username, old.password).status = 200]_vars

\* C6: a delete-user request for the id of the row with username 'admin' is
\* answered 403 or 404 and the admin row is still there, unchanged.
C6_AdminDeleteRejected ==
    [][\A r \in Req :
         \A a \in users :
           ( /\ Answers(r, "DELETE /api/users/:id")
             /\ a.id = req'[r].id /\ a.username = "admin" )
           => req'[r].status \in {403, 404} /\ a \in users']_vars

\* C7: an update-user request for the id of the row with username 'admin' is
\* answered 403 or 404 and leaves that row's password and role unchanged.
C7_AdminUpdateRejected ==
    [][\A r \in Req :
         \A a \in users :
           ( /\ Starts(r, "PUT /api/users/:id")
             /\ a.id = req'[r].id /\ a.username = "admin" )
           => req'[r].status \in {403, 404} /\ a \in users']_vars

\* C8: a create-user request with non-empty username, password and role that
\* is answered 201 stores the row and returns {id, username, role}; a login
\* with that username and password, right then and for as long as the row
\* holds them, is answered 200 with exactly id, username and role of the row.
C8_CreateThenLogin ==
    [][\A r \in Req :
         /\ ( /\ Answers(r, "POST /api/users") /\ req'[r].status = 201
              /\ ~Falsy(req'[r].username) /\ ~Falsy(req'[r].password)
              /\ ~Falsy(req'[r].role) )
            => LET rq == req'[r]
                   login == Login(variant, users', rq.username, rq.password)
               IN  /\ rq.body = [id |-> rq.body.id, username |-> rq.username,
                                 role |-> rq.role]
                   /\ [id |-> rq.body.id, username |-> rq.username,
                       password |-> rq.password, role |-> rq.role] \in users'
                   /\ login.status = 200 /\ login.body = rq.body
         /\ \A x \in users :
              ( /\ Starts(r, "POST /api/login")
                /\ ~Falsy(x.username) /\ ~Falsy(x.password)
                /\ req'[r].username = x.username /\ req'[r].password = x.password )
              => /\ req'[r].status = 200
                 /\ req'[r].body = [id |-> x.id, username |-> x.username,
                                    role |-> x.role]]_vars

\* A login with the credentials of a row that a create-user request stored
\* has been answered 200.
C8_Witness ==
    \E r \in Req :
        /\ req[r].op = "POST /api/login" /\ req[r].pc = "done"
        /\ req[r].status = 200 /\ req[r].body.id > 1

\* C9: in every store state, a login with a username that has no row and a
\* login with an existing username and a wrong password get the same
\* response: 401 with the same body.
C9_LoginFailuresIndistinguishable ==
    \A u1, u2 \in UsernameIn \ {NULL} :
      \A p1, p2 \in PasswordIn \ {""} :
        ( /\ ~UsernameTaken(users, u1)
          /\ \E x \in users : x.username = u2 /\ x.password # p2 )
        => LET a == Login(variant, users, u1, p1)
               b == Login(variant, users, u2, p2)
           IN  a.status = 401 /\ b.status = 401 /\ a.body = b.body

\* A login with a wrong password for an existing username has been answered
\* 401 while another username has no row.
C9_Witness ==
    \E r \in Req :
        /\ req[r].op = "POST /api/login" /\ req[r].pc = "done"
        /\ req[r].status = 401
        /\ UsernameTaken(users, req[r].username)
        /\ \E u \in UsernameIn \ {NULL} : ~UsernameTaken(users, u)

\* A required field of the request is missing or empty.
MissingRequired(rq) ==
    CASE rq.op = "POST /api/login" -> Falsy(rq.username) \/ Falsy(rq.password)
      [] rq.op = "POST /api/users" ->
            Falsy(rq.username) \/ Falsy(rq.password) \/ Falsy(rq.role)
      [] rq.op = "PUT /api/users/:id" -> Falsy(rq.role)
      [] OTHER -> FALSE

\* C10: a login, create-user or update-user request with a required field
\* missing or empty is answered 400 without a statement to the store.
C10_Validation400NoStatement ==
    [][\A r \in Req :
         ( /\ req[r].pc = "idle" /\ req'[r].pc # "idle"
           /\ MissingRequired(req'[r]) )
         => /\ req'[r].pc = "done" /\ req'[r].status = 400
            /\ req'[r].stmts = 0]_vars

\* C11: a create-asset request whose body lacks assetName (under either
\* spelling of the key), category, status or date is answered 400 and inserts
\* no asset row.
C11_AssetRequiredFields400 ==
    [][\A r \in Req :
         ( /\ Starts(r, "POST /api/assets")
           /\ \E k \in {"assetName", "assetname", "category", "status", "date"} :
                 /\ Falsy(Field(req'[r].payload, k))
                 /\ k \in {"assetName", "assetname"} =>
                       /\ Falsy(Field(req'[r].payload, "assetName"))
                       /\ Falsy(Field(req'[r].payload, "assetname")) )
         => /\ req'[r].pc = "done" /\ req'[r].status = 400
            /\ assets' = assets]_vars

\* C12: an update-user request with its required fields present whose id has
\* no row is answered 404 and leaves the store unchanged.
C12_UpdateAbsent404 ==
    [][\A r \in Req :
         ( /\ Starts(r, "PUT /api/users/:id")
           /\ ~Falsy(req'[r].role) /\ ~Falsy(req'[r].password)
           /\ SelectById(users, req'[r].id) = {} )
         => /\ req'[r].pc = "done" /\ req'[r].status = 404
            /\ users' = users /\ assets' = assets]_vars

\* C13: no request handler issues more than one statement to the store.
C13_OneStatementPerRequest ==
    \A r \in Req : req[r].stmts <= 1

\* The key of the front end for column c.
MixedKey(c) ==
    CASE c = "assetprefix" -> "assetPrefix"
      [] c = "assetnumber" -> "assetNumber"
      [] c = "assetname" -> "assetName"
      [] c = "employeename" -> "employeeName"
      [] c = "employeecode" -> "employeeCode"
      [] c = "cugmobile" -> "cugMobile"
      [] c = "assetmake" -> "assetMake"
      [] c = "assetserial" -> "assetSerial"
      [] OTHER -> c

\* C15: a create-asset request whose body has all fifteen mixed-case keys, the
\* required ones non-empty, and a (prefix, number) no row has, is answered 201,
\* and every listing of the table that follows contains a row with a newly
\* generated id whose columns equal the fields of the body.
C15_CreateThenList ==
    [][\A r \in Req :
         ( /\ Starts(r, "POST /api/assets")
           /\ DOMAIN req'[r].payload = {MixedKey(c) : c \in AssetColumns}
           /\ \A k \in {"assetPrefix", "assetNumber", "assetName", "category",
                        "status", "date"} : ~Falsy(req'[r].payload[k])
           /\ ~AssetKeyTaken(assets, req'[r].payload.assetPrefix,
                                     req'[r].payload.assetNumber) )
         => /\ req'[r].pc = "done" /\ req'[r].status = 201
            /\ \A res \in ListAssets(variant, assets') :
                 \E i \in DOMAIN res.body :
                    /\ res.body[i].id \notin {a.id : a \in assets}
                    /\ \A c \in AssetColumns :
                          res.body[i][c] = req'[r].payload[MixedKey(c)]]_vars

\* C16: the rows of every answered asset listing are in ascending id order.
C16_ListAscending ==
    \A r \in Req :
       (req[r].op = "GET /api/assets" /\ req[r].pc = "done" /\ req[r].status = 200)
       => \A i, j \in DOMAIN req[r].body : i < j => req[r].body[i].id < req[r].body[j].id

\* C19: no response body of a user listing, a create-user, an update-user or
\* a login request has a password field, neither the body itself nor a row
\* of a listing.
C19_NoPasswordInBodies ==
    \A r \in Req :
       req[r].pc = "done" =>
          /\ req[r].op = "GET /api/users" /\ req[r].status = 200
               => \A i \in DOMAIN req[r].body : "password" \notin DOMAIN req[r].body[i]
          /\ req[r].op \in {"POST /api/users", "PUT /api/users/:id", "POST /api/login"}
               => "password" \notin DOMAIN req[r].body

\* A listing has been answered with the rows of two users whose rows in the
\* store hold passwords.
C19_Witness ==
    \E r \in Req :
       /\ req[r].pc = "done" /\ req[r].op = "GET /api/users"
       /\ Len(req[r].body) >= 2
       /\ \A i \in DOMAIN req[r].body :
             \E x \in users : x.id = req[r].body[i].id /\ ~Falsy(x.password)

\* ---- C20: the delete-user race of part_000.
\* The server of part_000 on a users table that is empty or holds the admin row.
InitDeleteRace ==
    /\ variant = 5
    /\ users \in {{}, {AdminRow}}
    /\ userSeq = Cardinality(users) + 1
    /\ assets = {}
    /\ assetSeq = 1
    /\ req = [r \in Req |-> Idle]
    /\ origin = [r \in Req |-> NULL]
    /\ proc = [dbUrl |-> TRUE, phase |-> "listening"]

\* Create, update and delete requests, in flight together.
NextDeleteRace ==
    \E r \in Req :
        \/ \E u \in UsernameIn : PostUsers(r, u, "pw1", "user")
        \/ PostUsersInsert(r)
        \/ \E id \in UserIdIn : PutUsers(r, id, "pw2", "user")
        \/ \E id \in UserIdIn : DeleteUsers(r, id)
        \/ DeleteUsersDelete(r)
        \/ Collect(r)

SpecDeleteRace == InitDeleteRace /\ [][NextDeleteRace]_vars

\* C20: the DELETE statement of a delete-user request of part_000, whatever
\* other requests ran between its SELECT and its DELETE, removes no row whose
\* username is 'admin'.
C20_DeleteNeverRemovesAdmin ==
    [][\A r \in Req :
         ( /\ variant = 5
           /\ req[r].op = "DELETE /api/users/:id" /\ req[r].pc = "delete"
           /\ req'[r].pc = "done" )
         => \A x \in users \ users' : x.username # "admin"]_vars

\* C14: a request whose store statement failed with an error code other than
\* 23505 has been answered, with exactly one response, of status 500; the
\* failed statement stored nothing and was the last one its handler issued.
C14_StoreError500Once ==
    [][\A r \in Req :
         req'[r].err \notin {"", "23505"}
         => /\ req'[r].pc = "done" /\ req'[r].sent = 1 /\ req'[r].status = 500
            /\ req[r].err = "" => /\ req'[r].stmts = req[r].stmts + 1
                                  /\ users' = users /\ assets' = assets
            /\ req[r].err # "" => req'[r].stmts = req[r].stmts]_vars

\* The INSERT of a create-user request of part_000 failed after its pre-check
\* had run, and the request has been answered.
C14_Witness ==
    \E r \in Req :
       /\ variant = 5 /\ req[r].op = "POST /api/users"
       /\ req[r].err \in ErrCodeIn /\ req[r].stmts = 2 /\ req[r].pc = "done"

\* C17: a request reaches its route handler only if it carries no Origin
\* header or its Origin is in the variant's allowedOrigins, and it is rejected
\* only if it carries an Origin that is not in the list; a rejected request
\* runs no route handler and issues no statement.
C17_CorsIffAllowed ==
    [][\A r \in Req :
         LET permitted == Falsy(origin[r]) \/ origin[r] \in AllowedOrigins(variant)
         IN  /\ (req[r].pc = "idle" /\ req'[r].pc # "idle" /\ req'[r].op # "*")
                  => permitted
             /\ (req[r].pc = "idle" /\ req'[r].pc # "idle" /\ req'[r].op = "*")
                  => /\ ~permitted
                     /\ req'[r].stmts = 0
                     /\ users' = users /\ assets' = assets]_vars

\* C18: while DATABASE_URL is absent the process is never listening and no
\* request is handled.
C18_NoDbUrlNoListen ==
    ~proc.dbUrl => /\ proc.phase # "listening"
                   /\ \A r \in Req : req[r].pc = "idle"

\* ---- C21: the update requests of both tables.
\* Creates that fill the two tables, and the updates of their rows.
NextPut ==
    \E r \in Req :
        \/ PostUsers(r, "bob", "pw1", "user")
        \/ PostUsersInsert(r)
        \/ \E id \in UserIdIn, p \in {"pw2", ""} : PutUsers(r, id, p, "user")
        \/ \E n \in AssetNumberIn : PostAssets(r, MixedBody(n, "Dell Laptop"))
        \/ \E n \in AssetNumberIn : PostAssets(r, LowerBody(n, "Dell Laptop"))
        \/ \E id \in AssetIdIn :
              \/ PutAssets(r, id, MixedBody("002", "Dell Laptop"))
              \/ PutAssets(r, id, LowerBody("002", "Dell Laptop"))
        \/ Collect(r)

SpecPut == Init /\ [][NextPut]_vars

\* Tables T and T2 differ at most in the row with the given id, which is in
\* both or in neither and has the same value in each of the columns keys.
SameButRow(T, T2, id, keys) ==
    /\ {x \in T : x.id # id} = {y \in T2 : y.id # id}
    /\ Cardinality({y \in T2 : y.id = id}) = Cardinality({x \in T : x.id = id})
    /\ \A x \in T, y \in T2 : (x.id = id /\ y.id = id) => \A k \in keys : y[k] = x[k]

\* C21: an update request changes at most the row of its table whose id is
\* the path parameter; the row keeps its id (a user row its username too), no
\* row is added or removed, and the other table is unchanged.
C21_UpdateTouchesOneRow ==
    [][\A r \in Req :
         /\ Starts(r, "PUT /api/users/:id")
              => /\ SameButRow(users, users', req'[r].id, {"id", "username"})
                 /\ assets' = assets
         /\ Starts(r, "PUT /api/assets/:id")
              => /\ SameButRow(assets, assets', req'[r].id, {"id"})
                 /\ users' = users]_vars

\* An update has changed the password of one of two users while the asset
\* table holds a row.
C21_Witness ==
    \E r \in Req :
       /\ req[r].op = "PUT /api/users/:id" /\ req[r].pc = "done" /\ req[r].status = 200
       /\ \E x \in users : x.id = req[r].id /\ x.password = "pw2"
       /\ \E y \in users : y.id # req[r].id /\ y.password = "pw1"
       /\ assets # {}

\* C22: when an update of an existing user with a non-empty password p2 and a
\* role is answered 200, a login with the row's username and p2 is answered
\* 200 and a login with that username and the row's former password, if it
\* differs from p2, is answered 401.
C22_UpdateThenLogin ==
    [][\A r \in Req :
         ( /\ Starts(r, "PUT /api/users/:id") /\ req'[r].status = 200
           /\ ~Falsy(req'[r].password) /\ ~Falsy(req'[r].role) )
         => \A x \in SelectById(users, req'[r].id) :
               ~Falsy(x.username)
               => /\ Login(variant, users', x.username, req'[r].password).status = 200
                  /\ x.password # req'[r].password
                       => Login(variant, users', x.username, x.password).status = 401]_vars

\* An update that replaced the password pw1 of an existing user by pw2 has
\* been answered 200.
C22_Witness ==
    \E r \in Req :
       /\ req[r].op = "PUT /api/users/:id" /\ req[r].pc = "done" /\ req[r].status = 200
       /\ req[r].password = "pw2" /\ ~Falsy(req[r].role)
       /\ \E x \in users : /\ x.id = req[r].id /\ x.password = "pw2"
                           /\ ~Falsy(x.username)
       /\ "username" \in DOMAIN req[r].body

\* ---- C23: the requests that are answered with an error.
\* No asset has been created.
AssetsUntouched == assetSeq = 1

\* No user has been created and no handler is between two statements.
UsersUntouched == userSeq = 2 /\ \A q \in Req : req[q].pc \in {"idle", "done"}

\* Every route, with statements that work or fail. A run creates rows in one
\* of the two tables only: users are created and deleted while no asset has
\* been, assets are created while no user has been.
NextErr ==
    \E r \in Req :
        \/ PostLogin(r, "bob", "pw2")
        \/ \E u \in {"admin", "bob"} : AssetsUntouched /\ PostUsers(r, u, "pw1", "user")
        \/ PostUsersInsert(r)
        \/ \E id \in UserIdIn, ro \in RoleIn : PutUsers(r, id, "pw1", ro)
        \/ \E id \in UserIdIn : AssetsUntouched /\ DeleteUsers(r, id)
        \/ DeleteUsersDelete(r)
        \/ \E n \in AssetNumberIn :
              UsersUntouched /\ PostAssets(r, MixedBody(n, "Dell Laptop"))
        \/ \E n \in AssetNumberIn :
              UsersUntouched /\ PostAssets(r, LowerBody(n, "Dell Laptop"))
        \/ \E id \in AssetIdIn :
              \/ PutAssets(r, id, MixedBody("002", "Dell Laptop"))
              \/ PutAssets(r, id, LowerBody("002", "Dell Laptop"))
        \/ \E id \in AssetIdIn : DeleteAssets(r, id)
        \/ \E a \in {x \in UserArrivalIn \cup AssetArrivalIn :
                         /\ x.id \in {0, 1} /\ x.username \in {"bob", NULL}
                         /\ x.password \in {"pw1", NULL} /\ x.role \in {"user", NULL}
                         /\ x.payload \in {NoBody, MixedBody("001", "Dell Laptop"),
                                           LowerBody("001", "Dell Laptop")}},
                 code \in ErrCodeIn :
              QueryFails(r, a, code)
        \/ \E code \in ErrCodeIn : PostUsersInsertFails(r, code)
        \/ \E code \in ErrCodeIn : DeleteUsersDeleteFails(r, code)
        \/ Collect(r)

SpecErr == Init /\ [][NextErr]_vars

ErrorStatus == {400, 401, 403, 404, 409, 500}

\* C23: no step of a request that ends in an answer of status 400, 401, 403,
\* 404, 409 or 500, and no step of a handler that precedes its answer,
\* changes a row of users or assets.
C23_ErrorAnswerNoChange ==
    [][\A r \in Req :
         ( /\ req'[r] # req[r] /\ req'[r].pc # "idle"
           /\ req'[r].pc = "done" => req'[r].status \in ErrorStatus )
         => users' = users /\ assets' = assets]_vars

\* An asset update that ran into the uniqueness constraint has been answered
\* 409 while the table holds the row it addressed and the row it collided with.
C23_Witness ==
    \E r \in Req :
       /\ req[r].op = "PUT /api/assets/:id" /\ req[r].pc = "done" /\ req[r].status = 409
       /\ req[r].stmts = 1
       /\ \E x, y \in assets : x.id = req[r].id /\ y.id # x.id

\* ---- C24: the logins of variants 1 and 3.
\* The passwords of login requests: strings, and a JSON number.
LoginPasswordIn == PasswordIn \cup {"123", Num123}

InitLogin == Init /\ variant \in {1, 3}

\* Users are created, updated and deleted, and logins are tried.
NextLogin ==
    \E r \in Req :
        \/ \E p \in {"pw1", "123"} : PostUsers(r, "bob", p, "user")
        \/ \E id \in UserIdIn : PutUsers(r, id, "pw2", "user")
        \/ \E id \in UserIdIn : DeleteUsers(r, id)
        \/ \E u \in UsernameIn, p \in LoginPasswordIn : PostLogin(r, u, p)
        \/ Collect(r)

SpecLogin == InitLogin /\ [][NextLogin]_vars

\* No two rows of U have the same username.
UniqueUsernames(U) == \A x, y \in U : SqlEq(x.username, y.username) => x = y

\* C24: on every store with unique usernames and for every username and
\* password of a login request, the login handlers of variants 1 and 3 answer
\* with the same status and, when that is 200, the same id, username and role.
C24_LoginV1EqualsV3 ==
    UniqueUsernames(users) =>
       \A u \in UsernameIn, p \in LoginPasswordIn :
          LET a == LoginV1(users, u, p)
              b == LoginV3(users, u, p)
          IN  /\ a.status = b.status
              /\ a.status = 200 => a.body = b.body

====
